---- MODULE Spec2Model ----
(***************************************************************************)
(* A model of mlpack's k-fold cross-validation harness                     *)
(* (src/mlpack/core/cv/k_fold_cv_impl.hpp) and of the LeakyReLU layer      *)
(* (src/mlpack/methods/ann/layer/leaky_relu_impl.hpp).                     *)
(*                                                                         *)
(* A buffer (arma::Mat / arma::Row) is a sequence of columns; a column is  *)
(* named by the index 0..n-1 it has in the buffer the caller passed in, so *)
(* that a window over the staged buffer shows which original samples it    *)
(* reaches.  Only the column structure matters to the harness: rows are    *)
(* never indexed.                                                          *)
(***************************************************************************)
EXTENDS Integers, Sequences, FiniteSets, TLC

VARIABLES
  phase,               \* "new" | "built" | "failed"
  error,               \* what the constructor threw, NoError otherwise
  args,                \* the constructor's arguments (history)
  k,                   \* KFoldCV::k
  binSize,             \* KFoldCV::binSize
  trainingSubsetSize,  \* KFoldCV::trainingSubsetSize
  lastBinSize,         \* KFoldCV::lastBinSize
  xs, ys, weights,     \* the staged buffers
  modelPtr,            \* std::unique_ptr<MLAlgorithm>
  pc,                  \* position in the fold loop: "idle" | "train" |
                       \* "metric" | "keep" (before modelPtr.reset(new ...)) |
                       \* "kept" (the slot is set, Evaluate has not returned)
  i,                   \* the fold loop's index
  evaluations,         \* the scores written so far, evaluations(0..i-1)
  model,               \* the fold's model, MLAlgorithm&& model
  runs,                \* Evaluate calls started so far
  log,                 \* collaborator calls of the current / last run
  ret,                 \* how the last Evaluate call ended
  slotAtCall,          \* modelPtr when the last Evaluate call started (history)
  completed,           \* the last run that returned a mean, 0 if none (history)
  lastCall,            \* the last public call made on the harness (history)
  modelRet,            \* what the last Model() call gave
  alpha,               \* LeakyReLUType::alpha, in units of 1/Den
  input, gy,           \* the arguments of the last Forward / Backward
  output,              \* Forward's output, in units of 1/Den
  g,                   \* Backward's gradient, in units of 1/Den
  layerOp              \* the last layer operation

kfoldVars == <<phase, error, args, k, binSize, trainingSubsetSize, lastBinSize,
               xs, ys, weights, modelPtr, pc, i, evaluations, model, runs,
               log, ret, slotAtCall, completed, lastCall, modelRet>>
layerVars == <<alpha, input, gy, output, g, layerOp>>
vars == <<kfoldVars, layerVars>>

(***************************************************************************)
(* Bounds of the model.                                                    *)
(***************************************************************************)
MaxK == 4
MaxN == 5
MaxRuns == 2
MaxScore == 1
MaxLen == 2
MaxAbs == 1
\* size_t arithmetic is done modulo SizeMod (2^64 in the build, reduced here).
SizeMod == 65536

Scores == 0..MaxScore
Exceptions == {"std::runtime_error", "std::bad_alloc"}

Wrap(x) == x % SizeMod

Range(s) == {s[j] : j \in 1..Len(s)}

\* The buffer a caller passes in: columns 0..n-1.
Cols(n) == [j \in 1..n |-> j - 1]

\* What a view reads at a position past the end of the buffer it aliases.
OutOfBuffer == -1

\* arma::Mat(ptr, n_rows, n_cols, false, true) / arma::Row(ptr, n, false, true):
\* a view of len columns of m starting at column first, no copy.
View(m, first, len) ==
  [j \in 1..len |-> IF first + j <= Len(m) THEN m[first + j] ELSE OutOfBuffer]

NoError == "none"
KTooSmall == "std::invalid_argument: KFoldCV: k should not be less than 2"
DataInconsistent == "AssertDataConsistency"
WeightsInconsistent == "AssertWeightsConsistency"
ColsOutOfBounds == "std::logic_error: Mat::cols(): indices out of bounds"
UninitializedModel ==
  "std::logic_error: KFoldCV::Model(): attempted to access an uninitialized model"

\* What Metric::Evaluate does: it returns a score or throws.
MetricOutcomes ==
  {[threw |-> NoError, score |-> s] : s \in Scores}
    \cup {[threw |-> e, score |-> 0] : e \in Exceptions}

Null == [run |-> 0, fold |-> 0, weighted |-> FALSE]

(***************************************************************************)
(* Construction.                                                           *)
(***************************************************************************)

\* Base::AssertDataConsistency(xs, ys): the features and the labels have the
\* same number of points.
AssertDataConsistency(xsIn, ysIn) == Len(xsIn) = Len(ysIn)

\* A weights validator that also lets an empty weight buffer through.
AssertWeightsConsistency_AcceptsEmpty(xsIn, wIn) ==
  Len(wIn) = Len(xsIn) \/ Len(wIn) = 0

\* Base::AssertWeightsConsistency(xs, weights): one weight per point.
AssertWeightsConsistency(xsIn, wIn) == Len(wIn) = Len(xsIn)

\* InitKFoldCVMat without the duplicated prefix: destination = source.
InitKFoldCVMat_NoDuplication(source, kk) ==
  LET bs == Len(source) \div kk
  IN [binSize |-> bs, trainingSubsetSize |-> Wrap(bs * (kk - 1)),
      lastBinSize |-> Wrap(Len(source) - ((kk - 1) * bs)),
      inBounds |-> TRUE, destination |-> source]

\* InitKFoldCVMat(source, destination): the geometry and the staged buffer.
\* inBounds tells whether source.cols(0, trainingSubsetSize - binSize - 1) is
\* a range of source (arma checks in_col1 <= in_col2 < n_cols).  The range
\* has in_col2 - in_col1 + 1 columns in size_t arithmetic: none when
\* trainingSubsetSize - binSize - 1 wraps to the largest size_t.
InitKFoldCVMat(source, kk) ==
  LET bs == Len(source) \div kk
      tss == Wrap(bs * (kk - 1))
      lbs == Wrap(Len(source) - ((kk - 1) * bs))
      lastCol == Wrap(tss - bs - 1)
      ok == kk = 2 \/ lastCol < Len(source)
  IN [binSize |-> bs, trainingSubsetSize |-> tss, lastBinSize |-> lbs,
      inBounds |-> ok,
      destination |-> IF kk = 2 THEN source
                      ELSE source \o SubSeq(source, 1, Wrap(lastCol + 1))]

\* The constructor with the data validator called before the check of k.
BaseCtorError_ValidatorFirst(kk, xsIn, ysIn) ==
  IF ~AssertDataConsistency(xsIn, ysIn) THEN DataInconsistent
  ELSE IF kk < 2 THEN KTooSmall
  ELSE IF ~InitKFoldCVMat(xsIn, kk).inBounds THEN ColsOutOfBounds
  ELSE NoError

\* The first failure of KFoldCV(Base&&, k, xs, ys), in the order the
\* constructor checks: k, then the data validator, then the staging.
BaseCtorError(kk, xsIn, ysIn) ==
  IF kk < 2 THEN KTooSmall
  ELSE IF ~AssertDataConsistency(xsIn, ysIn) THEN DataInconsistent
  ELSE IF ~InitKFoldCVMat(xsIn, kk).inBounds THEN ColsOutOfBounds
  ELSE NoError

\* The first failure of KFoldCV(Base&&, k, xs, ys, weights): the delegated
\* constructor runs first, then the weights validator, then the staging.
WeightedCtorError(kk, xsIn, ysIn, wIn) ==
  IF BaseCtorError(kk, xsIn, ysIn) # NoError THEN BaseCtorError(kk, xsIn, ysIn)
  ELSE IF ~AssertWeightsConsistency(xsIn, wIn) THEN WeightsInconsistent
  ELSE IF ~InitKFoldCVMat(wIn, kk).inBounds THEN ColsOutOfBounds
  ELSE NoError

NoHarness ==
  /\ k' = 0 /\ binSize' = 0 /\ trainingSubsetSize' = 0 /\ lastBinSize' = 0
  /\ xs' = <<>> /\ ys' = <<>> /\ weights' = <<>>

\* KFoldCV(k, xs, ys [, weights]): all six public constructors delegate to the
\* two Base&& constructors.  supports is whether MLAlgorithm takes weights
\* (a weighted constructor needs it).  An out-of-range cols() throws in a
\* build with armadillo's bounds checks (checked); a build without them goes
\* on with the range as computed.
Construct(kk, n, ylen, supports, withWeights, wlen) ==
  /\ phase = "new"
  /\ withWeights => supports
  /\ ~withWeights => wlen = 0
  /\ LET xsIn == Cols(n)
         ysIn == Cols(ylen)
         wIn == Cols(wlen)
         errChecked ==
           IF withWeights THEN WeightedCtorError(kk, xsIn, ysIn, wIn)
           ELSE BaseCtorError(kk, xsIn, ysIn)
         errUnchecked ==
           IF BaseCtorError(kk, xsIn, ysIn) \notin {NoError, ColsOutOfBounds}
           THEN BaseCtorError(kk, xsIn, ysIn)
           ELSE IF withWeights /\ ~AssertWeightsConsistency(xsIn, wIn)
           THEN WeightsInconsistent
           ELSE NoError
         geo == IF withWeights THEN InitKFoldCVMat(wIn, kk)
                ELSE InitKFoldCVMat(ysIn, kk)
     IN /\ args' = [k |-> kk, n |-> n, ylen |-> ylen, supports |-> supports,
                    withWeights |-> withWeights, wlen |-> wlen]
        /\ \E checked \in BOOLEAN :
           LET err == IF checked THEN errChecked ELSE errUnchecked IN
           IF err = NoError
           THEN /\ phase' = "built"
                /\ error' = NoError
                /\ k' = kk
                /\ binSize' = geo.binSize
                /\ trainingSubsetSize' = geo.trainingSubsetSize
                /\ lastBinSize' = geo.lastBinSize
                /\ xs' = InitKFoldCVMat(xsIn, kk).destination
                /\ ys' = InitKFoldCVMat(ysIn, kk).destination
                /\ weights' = IF withWeights
                              THEN InitKFoldCVMat(wIn, kk).destination
                              ELSE <<>>
           ELSE /\ phase' = "failed"
                /\ error' = err
                /\ NoHarness
  /\ UNCHANGED <<modelPtr, pc, i, evaluations, model, runs, log, ret,
                 slotAtCall, completed, lastCall, modelRet>>
  /\ UNCHANGED layerVars

(***************************************************************************)
(* The fold windows.                                                       *)
(***************************************************************************)

\* ValidationSubsetFirstCol with binSize * i for binSize * (i - 1).
ValidationSubsetFirstCol_NoShift(j) ==
  IF j = 0 THEN trainingSubsetSize ELSE Wrap(binSize * j)

\* ValidationSubsetFirstCol(i)
ValidationSubsetFirstCol(j) ==
  IF j = 0 THEN trainingSubsetSize ELSE Wrap(binSize * (j - 1))

\* The validation subsetSize without the first fold's remainder.
ValidationSubsetSize_AlwaysBin(j) == binSize

\* subsetSize of GetValidationSubset(m, i)
ValidationSubsetSize(j) == IF j = 0 THEN lastBinSize ELSE binSize

\* GetValidationSubset(m, i), for a matrix and for a row alike
GetValidationSubset(m, j) ==
  View(m, ValidationSubsetFirstCol(j), ValidationSubsetSize(j))

\* m.colptr(binSize * i) of GetTrainingSubset(m, i)
TrainingSubsetFirstCol(j) == Wrap(binSize * j)

\* The training subsetSize with the remainder-sized length for every fold
\* but the first.
TrainingSubsetSize_NotFirst(j) ==
  IF j # 0 THEN Wrap(lastBinSize + (k - 2) * binSize)
  ELSE trainingSubsetSize

\* subsetSize of GetTrainingSubset(m, i)
TrainingSubsetSize(j) ==
  IF j = k - 1 THEN Wrap(lastBinSize + (k - 2) * binSize)
  ELSE trainingSubsetSize

\* GetTrainingSubset(m, i), for a matrix and for a row alike
GetTrainingSubset(m, j) ==
  View(m, TrainingSubsetFirstCol(j), TrainingSubsetSize(j))

(***************************************************************************)
(* Evaluate: the fold loop of TrainAndEvaluate, one step per collaborator  *)
(* call (base.Train, Metric::Evaluate), each of which returns or throws.   *)
(***************************************************************************)

RECURSIVE SumSeq(_)
SumSeq(s) == IF s = <<>> THEN 0 ELSE s[1] + SumSeq(Tail(s))

\* A mean that weights each fold's score by its validation window's size.
RECURSIVE SizeWeightedSum(_, _)
SizeWeightedSum(ev, f) ==
  IF f > Len(ev) THEN [sum |-> 0, count |-> 0]
  ELSE LET rest == SizeWeightedSum(ev, f + 1)
           size == IF f = 1 THEN lastBinSize ELSE binSize
       IN [sum |-> ev[f] * size + rest.sum, count |-> size + rest.count]

Mean_SizeWeighted(ev) == SizeWeightedSum(ev, 1)

\* arma::mean(evaluations): the sum of the elements over their number, kept
\* as the exact fraction sum / count.
Mean(ev) == [sum |-> SumSeq(ev), count |-> Len(ev)]

\* The dispatch without the test of weights.n_elem.
TrainWithWeights_NoEmptyTest == args.supports

\* Which Train the fold calls: the weighted overload of TrainAndEvaluate is
\* the one bound when MLAlgorithm supports weights, and it passes the weights
\* when weights.n_elem > 0.
TrainWithWeights == args.supports /\ Len(weights) > 0

\* The model kept after every fold.
KeepsModel_EveryFold(j) == TRUE

\* if (i == k - 1) modelPtr.reset(new MLAlgorithm(std::move(model)))
KeepsModel(j) == j = k - 1

\* for (...; i < k; ++i)
LoopContinues(j) == Wrap(j + 1) < k

\* A handler in the loop that skips the failed fold and goes on, returning
\* once the last fold is done.
Propagate_SkipFold(e) ==
  IF Wrap(i + 1) < k
  THEN [pc |-> "train", i |-> Wrap(i + 1), ret |-> ret]
  ELSE [pc |-> "idle", i |-> i,
        ret |-> [kind |-> "mean", what |-> NoError,
                 sum |-> SumSeq(evaluations), count |-> Len(evaluations)]]

\* A collaborator's exception leaves the loop and Evaluate at once: there is
\* no handler in TrainAndEvaluate or Evaluate.
Propagate(e) ==
  [pc |-> "idle", i |-> i,
   ret |-> [kind |-> "exception", what |-> e, sum |-> 0, count |-> 0]]

Call(op, X, Y, W, weighted, threw, score) ==
  [op |-> op, fold |-> i, X |-> X, Y |-> Y, W |-> W, weighted |-> weighted,
   threw |-> threw, score |-> score]

\* Evaluate(args...) -> TrainAndEvaluate(args...): arma::vec evaluations(k)
\* and the loop's entry (k >= 2, so fold 0 always runs).
EvaluateCall ==
  /\ phase = "built" /\ pc = "idle"
  /\ runs < MaxRuns
  /\ runs' = runs + 1
  /\ pc' = "train"
  /\ i' = 0
  /\ evaluations' = <<>>
  /\ log' = <<>>
  /\ ret' = [kind |-> "running", what |-> NoError, sum |-> 0, count |-> 0]
  /\ slotAtCall' = modelPtr
  /\ lastCall' = "Evaluate"
  /\ UNCHANGED <<phase, error, args, k, binSize, trainingSubsetSize,
                 lastBinSize, xs, ys, weights, modelPtr, model, completed,
                 modelRet>>
  /\ UNCHANGED layerVars

\* MLAlgorithm&& model = base.Train(...), which returns (threw = NoError) or
\* throws.
TrainStep(threw) ==
  /\ phase = "built" /\ pc = "train"
  /\ log' = Append(log,
       Call("Train", GetTrainingSubset(xs, i), GetTrainingSubset(ys, i),
            IF TrainWithWeights THEN GetTrainingSubset(weights, i) ELSE <<>>,
            TrainWithWeights, threw, 0))
  /\ IF threw = NoError
     THEN /\ model' = [run |-> runs, fold |-> i, weighted |-> TrainWithWeights]
          /\ pc' = "metric"
          /\ UNCHANGED <<i, ret>>
     ELSE /\ pc' = Propagate(threw).pc
          /\ i' = Propagate(threw).i
          /\ ret' = Propagate(threw).ret
          /\ UNCHANGED model
  /\ UNCHANGED <<phase, error, args, k, binSize, trainingSubsetSize,
                 lastBinSize, xs, ys, weights, modelPtr, evaluations, runs,
                 slotAtCall, completed, lastCall, modelRet>>
  /\ UNCHANGED layerVars

\* The end of a fold's loop body: ++i and the next fold, or the loop's exit
\* and return arma::mean(evaluations).
LoopControl(ev) ==
  IF LoopContinues(i)
  THEN /\ i' = Wrap(i + 1)
       /\ pc' = "train"
       /\ UNCHANGED <<ret, completed>>
  ELSE /\ pc' = "idle"
       /\ ret' = [kind |-> "mean", what |-> NoError,
                  sum |-> Mean(ev).sum, count |-> Mean(ev).count]
       /\ completed' = runs
       /\ UNCHANGED i

\* evaluations(i) = Metric::Evaluate(model, ...), which returns a score or
\* throws; then the test i == k - 1.
MetricStep(outcome) ==
  /\ phase = "built" /\ pc = "metric"
  /\ log' = Append(log,
       Call("Metric", GetValidationSubset(xs, i), GetValidationSubset(ys, i),
            <<>>, FALSE, outcome.threw, outcome.score))
  /\ IF outcome.threw = NoError
     THEN /\ evaluations' = Append(evaluations, outcome.score)
          /\ IF KeepsModel(i)
             THEN /\ pc' = "keep"
                  /\ UNCHANGED <<i, ret, completed>>
             ELSE LoopControl(evaluations')
     ELSE /\ pc' = Propagate(outcome.threw).pc
          /\ i' = Propagate(outcome.threw).i
          /\ ret' = Propagate(outcome.threw).ret
          /\ UNCHANGED <<evaluations, completed>>
  /\ UNCHANGED <<phase, error, args, k, binSize, trainingSubsetSize,
                 lastBinSize, xs, ys, weights, modelPtr, model, runs,
                 slotAtCall, lastCall, modelRet>>
  /\ UNCHANGED layerVars

\* modelPtr.reset(new MLAlgorithm(std::move(model))): operator new and
\* MLAlgorithm's move constructor run first and may throw, which leaves the
\* slot as it is and ends Evaluate; otherwise reset stores the new model.
KeepStep(threw) ==
  /\ phase = "built" /\ pc = "keep"
  /\ IF threw = NoError
     THEN /\ modelPtr' = model
          /\ pc' = "kept"
          /\ UNCHANGED <<i, ret>>
     ELSE /\ pc' = Propagate(threw).pc
          /\ i' = Propagate(threw).i
          /\ ret' = Propagate(threw).ret
          /\ UNCHANGED modelPtr
  /\ UNCHANGED <<phase, error, args, k, binSize, trainingSubsetSize,
                 lastBinSize, xs, ys, weights, evaluations, model, runs, log,
                 slotAtCall, completed, lastCall, modelRet>>
  /\ UNCHANGED layerVars

\* The rest of reset, which destroys the model the slot held before while
\* the slot already holds the new one, and then the end of the loop body.
ReleaseStep ==
  /\ phase = "built" /\ pc = "kept"
  /\ LoopControl(evaluations)
  /\ UNCHANGED <<phase, error, args, k, binSize, trainingSubsetSize,
                 lastBinSize, xs, ys, weights, modelPtr, evaluations, model,
                 runs, log, slotAtCall, lastCall, modelRet>>
  /\ UNCHANGED layerVars

\* Model()
ModelCall ==
  /\ phase = "built" /\ pc = "idle"
  /\ modelRet' = IF modelPtr = Null THEN UninitializedModel ELSE modelPtr
  /\ lastCall' = "Model"
  /\ UNCHANGED <<phase, error, args, k, binSize, trainingSubsetSize,
                 lastBinSize, xs, ys, weights, modelPtr, pc, i, evaluations,
                 model, runs, log, ret, slotAtCall, completed>>
  /\ UNCHANGED layerVars

(***************************************************************************)
(* The LeakyReLU layer.  Reals are fixed-point numbers in units of 1/Den;  *)
(* the elements of input and gy are whole numbers.                         *)
(***************************************************************************)
Den == 100
\* LeakyReLUType(const double alpha = 0.03)
DefaultAlpha == 3

Alphas == {0, DefaultAlpha, Den \div 2}
Elems == (0 - MaxAbs)..MaxAbs
Vectors == UNION {[1..len -> Elems] : len \in 0..MaxLen}

Max(a, b) == IF a >= b THEN a ELSE b

\* derivative(i) = (input(i) >= 0) ? 1 : alpha
Derivative(x) == IF x >= 0 THEN Den ELSE alpha

\* Alpha() = a
SetAlpha(a) ==
  /\ alpha' = a
  /\ layerOp' = "Alpha"
  /\ UNCHANGED <<input, gy, output, g>>
  /\ UNCHANGED kfoldVars

\* Forward(input, output): output = arma::max(input, alpha * input)
Forward(in) ==
  /\ input' = in
  /\ output' = [j \in 1..Len(in) |-> Max(in[j] * Den, alpha * in[j])]
  /\ layerOp' = "Forward"
  /\ UNCHANGED <<alpha, gy, g>>
  /\ UNCHANGED kfoldVars

\* Backward(input, gy, g): g = gy % derivative
Backward(in, gyIn) ==
  /\ Len(in) = Len(gyIn)
  /\ input' = in
  /\ gy' = gyIn
  /\ g' = [j \in 1..Len(in) |-> gyIn[j] * Derivative(in[j])]
  /\ layerOp' = "Backward"
  /\ UNCHANGED <<alpha, output>>
  /\ UNCHANGED kfoldVars

(***************************************************************************)
(* Specifications.                                                         *)
(***************************************************************************)
Init ==
  /\ phase = "new" /\ error = NoError
  /\ args = [k |-> 0, n |-> 0, ylen |-> 0, supports |-> FALSE,
             withWeights |-> FALSE, wlen |-> 0]
  /\ k = 0 /\ binSize = 0 /\ trainingSubsetSize = 0 /\ lastBinSize = 0
  /\ xs = <<>> /\ ys = <<>> /\ weights = <<>>
  /\ modelPtr = Null
  /\ pc = "idle" /\ i = 0 /\ evaluations = <<>> /\ model = Null
  /\ runs = 0 /\ log = <<>>
  /\ ret = [kind |-> "none", what |-> NoError, sum |-> 0, count |-> 0]
  /\ slotAtCall = Null /\ completed = 0
  /\ lastCall = "none" /\ modelRet = Null
  /\ alpha = DefaultAlpha
  /\ input = <<>> /\ gy = <<>> /\ output = <<>> /\ g = <<>>
  /\ layerOp = "none"

Next ==
  \/ \E kk \in 0..MaxK, n \in 0..MaxN, supports \in BOOLEAN,
        withWeights \in BOOLEAN :
       \E ylen \in {n, n + 1}, wlen \in {0, n} :
         Construct(kk, n, ylen, supports, withWeights, wlen)
  \/ EvaluateCall
  \/ \E threw \in {NoError} \cup Exceptions : TrainStep(threw)
  \/ \E outcome \in MetricOutcomes : MetricStep(outcome)
  \/ \E threw \in {NoError} \cup Exceptions : KeepStep(threw)
  \/ ReleaseStep
  \/ ModelCall

Spec == Init /\ [][Next]_vars

NextLayer ==
  \/ \E a \in Alphas : SetAlpha(a)
  \/ \E in \in Vectors : Forward(in)
  \/ \E in \in Vectors, gyIn \in Vectors : Backward(in, gyIn)

SpecLayer == Init /\ [][NextLayer]_vars

(***************************************************************************)
(* The fold geometry (n >= k >= 2).                                        *)
(***************************************************************************)
Folds == 0..(k - 1)

\* The harness is built on n >= k samples.
Regular == phase = "built" /\ args.n >= k

\* The staged columns a window of len columns from first covers.
Span(first, len) == first..(first + len - 1)

\* C1: for every fold the training and the validation window lengths add up
\* to n, and every original column 0..n-1 is in exactly one of the two.
C1_EverySampleInOneWindow ==
  Regular =>
    \A f \in Folds :
      LET T == GetTrainingSubset(xs, f)
          V == GetValidationSubset(xs, f)
      IN /\ Len(T) + Len(V) = args.n
         /\ \A c \in 0..(args.n - 1) : (c \in Range(T)) # (c \in Range(V))

\* C2: fold 0 validates columns [trainingSubsetSize, n), fold f >= 1 columns
\* [binSize*(f-1), binSize*f); every original column is in exactly one fold's
\* validation window, and a completed run passed each column to the metric
\* exactly once.
C2_ValidationPartition ==
  Regular =>
    /\ GetValidationSubset(xs, 0)
         = [j \in 1..(args.n - trainingSubsetSize) |->
              trainingSubsetSize + j - 1]
    /\ \A f \in Folds \ {0} :
         GetValidationSubset(xs, f)
           = [j \in 1..binSize |-> binSize * (f - 1) + j - 1]
    /\ \A c \in 0..(args.n - 1) :
         Cardinality({f \in Folds : c \in Range(GetValidationSubset(xs, f))}) = 1
    /\ ret.kind = "mean" =>
         \A c \in 0..(args.n - 1) :
           Cardinality({j \in 1..Len(log) :
                          log[j].op = "Metric" /\ c \in Range(log[j].X)}) = 1

C2_Witness ==
  /\ Regular /\ k >= 3 /\ args.n % k # 0
  /\ ret.kind = "mean"

\* C3: the training and the validation window of a fold cover disjoint
\* columns of the staged buffer and reach disjoint original samples, also
\* through the duplicated tail; the same for the windows a run passed to
\* Train and to the metric in one fold.
C3_WindowsDisjoint ==
  Regular =>
    /\ \A f \in Folds :
         /\ Span(TrainingSubsetFirstCol(f), TrainingSubsetSize(f))
              \cap Span(ValidationSubsetFirstCol(f), ValidationSubsetSize(f))
              = {}
         /\ Range(GetTrainingSubset(xs, f))
              \cap Range(GetValidationSubset(xs, f)) = {}
         /\ Range(GetTrainingSubset(ys, f))
              \cap Range(GetValidationSubset(ys, f)) = {}
    /\ \A a \in 1..Len(log), b \in 1..Len(log) :
         (log[a].op = "Train" /\ log[b].op = "Metric"
            /\ log[a].fold = log[b].fold) =>
           /\ Range(log[a].X) \cap Range(log[b].X) = {}
           /\ Range(log[a].Y) \cap Range(log[b].Y) = {}

\* The last fold's metric call has been made and that fold trained through
\* the duplicated tail.
C3_Witness ==
  /\ Regular /\ k >= 3
  /\ Len(log) = 2 * k /\ log[2 * k].op = "Metric"
  /\ \E j \in 1..Len(log[2 * k - 1].X) :
       /\ TrainingSubsetFirstCol(k - 1) + j > args.n
       /\ log[2 * k - 1].X[j] = TrainingSubsetFirstCol(k - 1) + j - 1 - args.n

\* C4: the staged buffers have n columns when k = 2 and
\* n + trainingSubsetSize - binSize otherwise, and every window of every fold
\* ends inside them.
C4_WindowsInsideStaged ==
  Regular =>
    LET stagedCols == IF k = 2 THEN args.n
                      ELSE args.n + trainingSubsetSize - binSize
    IN /\ Len(xs) = stagedCols /\ Len(ys) = stagedCols
       /\ args.withWeights => Len(weights) = stagedCols
       /\ \A f \in Folds :
            /\ binSize * f + trainingSubsetSize <= stagedCols
            /\ TrainingSubsetFirstCol(f) = binSize * f
            /\ f = k - 1 =>
                 TrainingSubsetSize(f) = lastBinSize + (k - 2) * binSize
            /\ TrainingSubsetFirstCol(f) + TrainingSubsetSize(f) <= stagedCols
            /\ ValidationSubsetFirstCol(f) + ValidationSubsetSize(f)
                 <= stagedCols
            /\ OutOfBuffer \notin Range(GetTrainingSubset(xs, f))
                                    \cup Range(GetValidationSubset(xs, f))

\* The last fold of a harness with a remainder is training on a window that
\* ends exactly at the end of the lengthened staged buffer.
C4_Witness ==
  /\ Regular /\ k >= 3 /\ args.n % k # 0
  /\ pc = "metric" /\ i = k - 1
  /\ Len(xs) > args.n
  /\ TrainingSubsetFirstCol(i) + TrainingSubsetSize(i) = Len(xs)

(***************************************************************************)
(* The model slot, construction failures, the fold loop.                   *)
(***************************************************************************)

\* C5: between calls, the slot is empty exactly when no run has completed
\* (gone through all k folds and returned), and Model() then throws the logic
\* error; otherwise the slot holds the model trained on fold k-1 of the last
\* completed run; a run that failed, in Train, in the metric or while the
\* model was being kept, and a run that has not reached the reset, has left
\* the slot as it was when Evaluate was called.
C5_ModelSlot ==
  phase = "built" =>
    /\ pc = "idle" =>
         /\ (modelPtr = Null) <=> (completed = 0)
         /\ modelPtr # Null =>
              modelPtr.run = completed /\ modelPtr.fold = k - 1
    /\ (pc \in {"train", "metric", "keep"} \/ ret.kind = "exception") =>
         modelPtr = slotAtCall
    /\ (lastCall = "Model" /\ completed = 0) => modelRet = UninitializedModel
    /\ (lastCall = "Model" /\ completed # 0) =>
         /\ modelRet = modelPtr
         /\ modelRet.run = completed /\ modelRet.fold = k - 1

\* A run completed, a second went through all its Train and metric calls and
\* failed while its last model was being kept, and Model() gave the first
\* run's model.
C5_Witness ==
  /\ phase = "built" /\ runs = 2 /\ completed = 1
  /\ pc = "idle" /\ ret.kind = "exception"
  /\ Len(log) = 2 * k /\ log[2 * k].threw = NoError
  /\ lastCall = "Model" /\ modelRet.run = 1

\* C6: construction with k < 2 throws the invalid-argument of the k check
\* whatever the buffers are, nothing is staged, and no Evaluate or Model
\* call happens on the object.
C6_SmallKRejected ==
  (phase # "new" /\ args.k < 2) =>
    /\ phase = "failed"
    /\ error = KTooSmall
    /\ xs = <<>> /\ ys = <<>> /\ weights = <<>>
    /\ runs = 0 /\ log = <<>> /\ lastCall = "none" /\ modelPtr = Null

\* k = 1 with labels and weights that both mismatch the features.
C6_Witness ==
  /\ phase = "failed" /\ args.k = 1
  /\ args.ylen # args.n
  /\ args.withWeights /\ args.wlen # args.n

\* C7: a throwing Train or metric call is the last call of its run: Evaluate
\* ends at once with that exception, no mean, and the calls made are exactly
\* Train and metric of folds 0.. up to the failing call, once each.
C7_FailureAborts ==
  phase = "built" =>
    /\ \A j \in 1..(Len(log) - 1) : log[j].threw = NoError
    /\ \A j \in 1..Len(log) :
         /\ log[j].fold = (j - 1) \div 2
         /\ log[j].op = IF j % 2 = 1 THEN "Train" ELSE "Metric"
    /\ (Len(log) > 0 /\ log[Len(log)].threw # NoError) =>
         /\ pc = "idle"
         /\ ret = [kind |-> "exception", what |-> log[Len(log)].threw,
                   sum |-> 0, count |-> 0]
         /\ evaluations = [f \in 1..log[Len(log)].fold |-> log[2 * f].score]
    /\ ret.kind = "exception" =>
         /\ pc = "idle" /\ ret.what \in Exceptions
         /\ Len(log) > 0
         /\ \/ log[Len(log)].threw = ret.what
            \/ /\ log[Len(log)].threw = NoError
               /\ log[Len(log)].op = "Metric" /\ log[Len(log)].fold = k - 1

\* The metric threw in fold 1 of at least 3: fold 2 was never trained.
C7_Witness ==
  /\ phase = "built" /\ k >= 3
  /\ ret.kind = "exception"
  /\ Len(log) = 4 /\ log[4].op = "Metric" /\ log[4].fold = 1
  /\ log[4].threw = ret.what

\* The sum of the scores the metric returned for folds 0..f-1.
RECURSIVE ScoresUpTo(_)
ScoresUpTo(f) == IF f = 0 THEN 0 ELSE ScoresUpTo(f - 1) + log[2 * f].score

\* C8: a completed run made exactly the calls Train, metric of folds 0..k-1
\* in order, and returned (sum of the k scores) / k.
C8_UnweightedMean ==
  (phase = "built" /\ ret.kind = "mean") =>
    /\ Len(log) = 2 * k
    /\ \A f \in Folds :
         /\ log[2 * f + 1].op = "Train" /\ log[2 * f + 1].fold = f
         /\ log[2 * f + 2].op = "Metric" /\ log[2 * f + 2].fold = f
         /\ log[2 * f + 1].threw = NoError /\ log[2 * f + 2].threw = NoError
    /\ evaluations = [f \in 1..k |-> log[2 * f].score]
    /\ ret.count > 0
    /\ ret.sum * k = ScoresUpTo(k) * ret.count

\* A completed run whose first fold validated on more columns than the
\* others and scored differently from the second.
C8_Witness ==
  /\ Regular /\ ret.kind = "mean"
  /\ lastBinSize # binSize
  /\ log[2].score # log[4].score

\* C9 as claimed: a weighted construction with a zero-length weight buffer
\* (all else valid) builds the harness, whose folds all call the unweighted
\* Train.
C9_ZeroLengthWeightsAccepted ==
  /\ (phase # "new" /\ args.withWeights /\ args.wlen = 0
        /\ args.k >= 2 /\ args.ylen = args.n /\ args.n >= args.k) =>
       phase = "built"
  /\ phase = "built" =>
       \A j \in 1..Len(log) :
         log[j].op = "Train" =>
           (log[j].weighted <=> (args.withWeights /\ Len(weights) > 0))

\* C9, amended: a weighted construction with a zero-length weight buffer for
\* n > 0 samples builds no harness; it throws, in the order of the
\* constructor's checks: invalid-argument when k < 2; else the data
\* validator's exception when the labels do not match the features; else the
\* weights validator's exception, save that for n < k with k > 2 the staging
\* of the features may throw the cols() bounds error before the weights
\* validator is reached (it does where armadillo checks bounds).  A fold
\* calls the weighted Train, with the fold's training window of the weights,
\* exactly when the harness was built with weights and the staged weights are
\* non-empty, and the unweighted Train otherwise.
C9_WeightDispatch ==
  /\ (phase # "new" /\ args.withWeights /\ args.wlen = 0 /\ args.n > 0) =>
       /\ phase = "failed"
       /\ IF args.k < 2 THEN error = KTooSmall
          ELSE IF args.ylen # args.n THEN error = DataInconsistent
          ELSE IF args.n < args.k /\ args.k > 2
               THEN error \in {ColsOutOfBounds, WeightsInconsistent}
          ELSE error = WeightsInconsistent
  /\ phase = "built" =>
       \A j \in 1..Len(log) :
         log[j].op = "Train" =>
           /\ log[j].weighted <=> (args.withWeights /\ Len(weights) > 0)
           /\ log[j].W = IF log[j].weighted
                         THEN GetTrainingSubset(weights, log[j].fold)
                         ELSE <<>>
           /\ log[j].weighted => Len(log[j].W) = Len(log[j].X)

\* A harness for a model type that takes weights, with no staged weights, has
\* run all its folds.
C9_Witness ==
  /\ Regular /\ args.supports /\ Len(weights) = 0
  /\ Len(log) = 2 * k
  /\ \A j \in 1..Len(log) : ~log[j].weighted

(***************************************************************************)
(* The LeakyReLU layer.                                                    *)
(***************************************************************************)

\* C10: Backward gives g = gy * f'(input) with f'(x) = 1 for x > 0 and alpha
\* for x <= 0.
C10_BackwardDerivative ==
  layerOp = "Backward" =>
    /\ Len(g) = Len(input)
    /\ \A j \in 1..Len(g) :
         g[j] = gy[j] * (IF input[j] > 0 THEN Den ELSE alpha)

(***************************************************************************)
(* Fewer samples than folds (n < k).                                       *)
(***************************************************************************)

\* Construction was called with k >= 2, n < k and buffers that agree on n.
FewSamples ==
  /\ phase # "new"
  /\ args.k >= 2 /\ args.n < args.k
  /\ args.ylen = args.n
  /\ args.withWeights => args.wlen = args.n

\* The windows of a harness built on n < k samples: binSize = 0,
\* trainingSubsetSize = 0, lastBinSize = n; the validation windows of folds
\* i >= 1 and the training windows of folds i < k-1 are empty, and so are the
\* windows a run passed to Train and to the metric in those folds.
DegenerateWindows ==
  /\ binSize = 0 /\ trainingSubsetSize = 0 /\ lastBinSize = args.n
  /\ \A f \in Folds :
       /\ f >= 1 => GetValidationSubset(xs, f) = <<>>
       /\ f < k - 1 => GetTrainingSubset(xs, f) = <<>>
       /\ f >= 1 => GetValidationSubset(ys, f) = <<>>
       /\ f < k - 1 => GetTrainingSubset(ys, f) = <<>>
  /\ \A j \in 1..Len(log) :
       /\ (log[j].op = "Metric" /\ log[j].fold >= 1) =>
            log[j].X = <<>> /\ log[j].Y = <<>>
       /\ (log[j].op = "Train" /\ log[j].fold < k - 1) =>
            log[j].X = <<>> /\ log[j].Y = <<>> /\ log[j].W = <<>>

\* C11 as claimed: construction with k >= 2 and n < k builds the harness,
\* with the degenerate geometry and empty windows.
C11_FewSamplesBuilt ==
  FewSamples => (phase = "built" /\ DegenerateWindows)

\* C11, amended: construction with k >= 2 and n < k is rejected by no check
\* of n against k.  With k = 2 the harness is built.  With k > 2 staging asks
\* for source.cols(0, trainingSubsetSize - binSize - 1), whose last index has
\* wrapped: construction throws armadillo's bounds error or, without bounds
\* checks, builds the harness on the unlengthened buffer.  Every harness built
\* has the degenerate geometry and empty windows.
C11_FewSamplesDegenerate ==
  FewSamples =>
    /\ phase = "built" \/ (phase = "failed" /\ error = ColsOutOfBounds)
    /\ args.k = 2 => phase = "built"
    /\ phase = "built" =>
         /\ DegenerateWindows
         /\ Len(xs) = args.n /\ Len(ys) = args.n
         /\ GetValidationSubset(xs, 0) = Cols(args.n)
         /\ GetTrainingSubset(xs, k - 1) = Cols(args.n)

\* A harness built on fewer samples than its 3 or more folds has trained
\* fold 1 on an empty window.
C11_Witness ==
  /\ FewSamples /\ phase = "built"
  /\ k >= 3 /\ args.n >= 1
  /\ pc = "metric" /\ i = 1
  /\ log[3].op = "Train" /\ log[3].X = <<>>

====
